---------------------------- MODULE Spec2Model ----------------------------
(***************************************************************************)
(* Image Tags Updater: the JPEG segment compositor (XMP APP1 upsert,       *)
(* Photoshop APP13 removal, IPTC APP13 insert) and the applyMetadata       *)
(* orchestrator of the React application.                                  *)
(*                                                                         *)
(* A byte buffer (Uint8Array) is a sequence over 0..255; offsets are the   *)
(* 0-based offsets of the source.  A JavaScript string is a sequence of    *)
(* code points of the Basic Multilingual Plane (no surrogates).            *)
(***************************************************************************)
EXTENDS Integers, Sequences, FiniteSets, TLC

(***************************************************************************)
(* Uint8Array primitives                                                   *)
(***************************************************************************)

\* The value standing for a thrown exception, a RangeError of a typed array (no buffer holds -1).
Thrown == <<-1>>

\* The value of reading past the end of a typed array (undefined).
Undefined == -1

\* b[i] with a 0-based index; past the end it is undefined.
At(b, i) == IF i >= 0 /\ i < Len(b) THEN b[i + 1] ELSE Undefined

\* b.slice(from, to): both ends are clamped to the buffer.
Slice(b, from, to) ==
  LET f == IF from > Len(b) THEN Len(b) ELSE from
      t == IF to > Len(b) THEN Len(b) ELSE to
  IN  SubSeq(b, f + 1, t)

\* b.slice(from)
SliceFrom(b, from) == Slice(b, from, Len(b))

\* new Uint8Array(n): zero filled; a negative length throws.
NewUint8Array(n) == IF n < 0 THEN Thrown ELSE [i \in 1..n |-> 0]

\* out.set(src, off): throws when src does not fit at off.
U8Set(out, src, off) ==
  IF out = Thrown THEN Thrown
  ELSE IF off + Len(src) > Len(out) THEN Thrown
  ELSE SubSeq(out, 1, off) \o src \o SubSeq(out, off + Len(src) + 1, Len(out))

\* (x >> 8) & 0xff and x & 0xff
HiByte(x) == (x \div 256) % 256
LoByte(x) == x % 256

\* (b[o] << 8) | b[o + 1]; callers read inside the buffer.
ReadU16(b, o) == At(b, o) * 256 + At(b, o + 1)

(***************************************************************************)
(* Text                                                                    *)
(***************************************************************************)

\* TextEncoder.encode of one code point below 0x10000.
Utf8Char(c) ==
  IF c < 128 THEN <<c>>
  ELSE IF c < 2048 THEN <<192 + (c \div 64), 128 + (c % 64)>>
  ELSE <<224 + (c \div 4096), 128 + ((c \div 64) % 64), 128 + (c % 64)>>

\* utf8(s): the bytes of every code point, in order (split in halves so that
\* long strings do not nest deeply).
RECURSIVE utf8(_)
utf8(s) ==
  IF Len(s) = 0 THEN <<>>
  ELSE IF Len(s) = 1 THEN Utf8Char(s[1])
  ELSE LET h == Len(s) \div 2
       IN  utf8(SubSeq(s, 1, h)) \o utf8(SubSeq(s, h + 1, Len(s)))

\* s.replace(/c/g, r) for a single character c.
RECURSIVE ReplaceAll(_, _, _)
ReplaceAll(s, c, r) ==
  IF Len(s) = 0 THEN <<>>
  ELSE IF Len(s) = 1 THEN (IF s[1] = c THEN r ELSE s)
  ELSE LET h == Len(s) \div 2
       IN  ReplaceAll(SubSeq(s, 1, h), c, r)
             \o ReplaceAll(SubSeq(s, h + 1, Len(s)), c, r)

XmlHead ==
  <<60, 63, 120, 112, 97, 99, 107, 101, 116, 32, 98, 101, 103, 105, 110,
    61, 34, 65279, 34, 32, 105, 100, 61, 34, 87, 53, 77, 48, 77, 112, 67,
    101, 104, 105, 72, 122, 114, 101, 83, 122, 78, 84, 99, 122, 107, 99,
    57, 100, 34, 63, 62, 60, 120, 58, 120, 109, 112, 109, 101, 116, 97, 32,
    120, 109, 108, 110, 115, 58, 120, 61, 34, 97, 100, 111, 98, 101, 58,
    110, 115, 58, 109, 101, 116, 97, 47, 34, 62, 60, 114, 100, 102, 58, 82,
    68, 70, 32, 120, 109, 108, 110, 115, 58, 114, 100, 102, 61, 34, 104,
    116, 116, 112, 58, 47, 47, 119, 119, 119, 46, 119, 51, 46, 111, 114,
    103, 47, 49, 57, 57, 57, 47, 48, 50, 47, 50, 50, 45, 114, 100, 102, 45,
    115, 121, 110, 116, 97, 120, 45, 110, 115, 35, 34, 62, 60, 114, 100,
    102, 58, 68, 101, 115, 99, 114, 105, 112, 116, 105, 111, 110, 32, 120,
    109, 108, 110, 115, 58, 100, 99, 61, 34, 104, 116, 116, 112, 58, 47,
    47, 112, 117, 114, 108, 46, 111, 114, 103, 47, 100, 99, 47, 101, 108,
    101, 109, 101, 110, 116, 115, 47, 49, 46, 49, 47, 34, 32, 120, 109,
    108, 110, 115, 58, 120, 109, 112, 61, 34, 104, 116, 116, 112, 58, 47,
    47, 110, 115, 46, 97, 100, 111, 98, 101, 46, 99, 111, 109, 47, 120, 97,
    112, 47, 49, 46, 48, 47, 34, 62, 60, 100, 99, 58, 116, 105, 116, 108,
    101, 62, 60, 114, 100, 102, 58, 65, 108, 116, 62, 60, 114, 100, 102,
    58, 108, 105, 32, 120, 109, 108, 58, 108, 97, 110, 103, 61, 34, 120,
    45, 100, 101, 102, 97, 117, 108, 116, 34, 62>>

XmlTitleToDescription ==
  <<60, 47, 114, 100, 102, 58, 108, 105, 62, 60, 47, 114, 100, 102, 58, 65,
    108, 116, 62, 60, 47, 100, 99, 58, 116, 105, 116, 108, 101, 62, 60,
    100, 99, 58, 100, 101, 115, 99, 114, 105, 112, 116, 105, 111, 110, 62,
    60, 114, 100, 102, 58, 65, 108, 116, 62, 60, 114, 100, 102, 58, 108,
    105, 32, 120, 109, 108, 58, 108, 97, 110, 103, 61, 34, 120, 45, 100,
    101, 102, 97, 117, 108, 116, 34, 62>>

XmlDescriptionToBag ==
  <<60, 47, 114, 100, 102, 58, 108, 105, 62, 60, 47, 114, 100, 102, 58, 65,
    108, 116, 62, 60, 47, 100, 99, 58, 100, 101, 115, 99, 114, 105, 112,
    116, 105, 111, 110, 62, 60, 100, 99, 58, 115, 117, 98, 106, 101, 99,
    116, 62, 60, 114, 100, 102, 58, 66, 97, 103, 62>>

XmlTail ==
  <<60, 47, 114, 100, 102, 58, 66, 97, 103, 62, 60, 47, 100, 99, 58, 115,
    117, 98, 106, 101, 99, 116, 62, 60, 47, 114, 100, 102, 58, 68, 101,
    115, 99, 114, 105, 112, 116, 105, 111, 110, 62, 60, 47, 114, 100, 102,
    58, 82, 68, 70, 62, 60, 47, 120, 58, 120, 109, 112, 109, 101, 116, 97,
    62, 60, 63, 120, 112, 97, 99, 107, 101, 116, 32, 101, 110, 100, 61, 34,
    119, 34, 63, 62>>

LiOpen ==
  <<60, 114, 100, 102, 58, 108, 105, 62>>

LiClose ==
  <<60, 47, 114, 100, 102, 58, 108, 105, 62>>

XmpSignature ==
  <<104, 116, 116, 112, 58, 47, 47, 110, 115, 46, 97, 100, 111, 98, 101,
    46, 99, 111, 109, 47, 120, 97, 112, 47, 49, 46, 48, 47, 0>>

PhotoshopHeader ==
  <<80, 104, 111, 116, 111, 115, 104, 111, 112, 32, 51, 46, 48, 0>>

BimSignature ==
  <<56, 66, 73, 77>>

Amp ==
  <<38, 97, 109, 112, 59>>

Lt ==
  <<38, 108, 116, 59>>

Gt ==
  <<38, 103, 116, 59>>

Quot ==
  <<38, 113, 117, 111, 116, 59>>

Apos ==
  <<38, 97, 112, 111, 115, 59>>


\* xmlEscape: the five replacements in the order of the source.
xmlEscape(s) ==
  ReplaceAll(ReplaceAll(ReplaceAll(ReplaceAll(ReplaceAll(s,
    38, Amp), 60, Lt), 62, Gt), 34, Quot), 39, Apos)

\* (keywordsArr || []).filter(Boolean): the empty strings are dropped.
RECURSIVE FilterBoolean(_)
FilterBoolean(kws) ==
  IF kws = <<>> THEN <<>>
  ELSE (IF Head(kws) = <<>> THEN <<>> ELSE <<Head(kws)>>)
         \o FilterBoolean(Tail(kws))

\* kws.map(k => `<rdf:li>${xmlEscape(k)}</rdf:li>`).join("")
RECURSIVE BagItems(_)
BagItems(kws) ==
  IF kws = <<>> THEN <<>>
  ELSE LiOpen \o xmlEscape(Head(kws)) \o LiClose \o BagItems(Tail(kws))

buildXmpXml(title, description, keywordsArr) ==
  XmlHead \o xmlEscape(title) \o XmlTitleToDescription
    \o xmlEscape(description) \o XmlDescriptionToBag
    \o BagItems(FilterBoolean(keywordsArr)) \o XmlTail

\* The APP1 segment: FF E1, the 2-byte length, the preamble and the packet.
buildXmpSegment(xml) ==
  LET payload == XmpSignature \o utf8(xml)
      length  == Len(payload) + 2
  IN  <<255, 225, HiByte(length), LoByte(length)>> \o payload

(***************************************************************************)
(* Segment walks and splices                                               *)
(***************************************************************************)

\* jpegBytes[0] === 0xff && jpegBytes[1] === 0xd8
StartsWithSOI(b) == At(b, 0) = 255 /\ At(b, 1) = 216

\* The signature comparison of findExistingXmp: a read past the end is
\* undefined and differs from every signature byte.
XmpPreambleAt(b, o) ==
  \A i \in 0..(Len(XmpSignature) - 1) : At(b, o + i) = XmpSignature[i + 1]

\* The while loop of findExistingXmp, from `offset`.
RECURSIVE FindXmpFrom(_, _)
FindXmpFrom(b, offset) ==
  IF offset + 4 > Len(b) THEN [found |-> FALSE, start |-> 0, totalLen |-> 0]
  ELSE IF At(b, offset) # 255
    THEN [found |-> FALSE, start |-> 0, totalLen |-> 0]
  ELSE LET type == At(b, offset + 1) IN
    IF type = 218 THEN [found |-> FALSE, start |-> 0, totalLen |-> 0]
    ELSE IF type = 216 \/ type = 217 THEN FindXmpFrom(b, offset + 2)
    ELSE LET len == ReadU16(b, offset + 2) IN
      IF type = 225 /\ XmpPreambleAt(b, offset + 4)
        THEN [found |-> TRUE, start |-> offset, totalLen |-> 2 + len]
        ELSE FindXmpFrom(b, offset + 2 + len)

\* findExistingXmp: {start, totalLen} of the first XMP APP1, or null.
findExistingXmp(b) ==
  IF ~StartsWithSOI(b) THEN [found |-> FALSE, start |-> 0, totalLen |-> 0]
  ELSE FindXmpFrom(b, 2)

\* replaceSegment: allocate, then three set calls; each may throw.
replaceSegment(b, start, totalLen, newSeg) ==
  LET out == NewUint8Array(Len(b) - totalLen + Len(newSeg))
      o1  == U8Set(out, Slice(b, 0, start), 0)
      o2  == U8Set(o1, newSeg, start)
  IN  U8Set(o2, SliceFrom(b, start + totalLen), start + Len(newSeg))

\* A walk that moves the insert position past every segment, APPn or not.
RECURSIVE InsertPosAnySegment(_, _, _)
InsertPosAnySegment(b, offset, insertPos) ==
  IF offset + 4 > Len(b) THEN insertPos
  ELSE IF At(b, offset) # 255 THEN insertPos
  ELSE LET type == At(b, offset + 1) IN
    IF type = 218 THEN insertPos
    ELSE IF type = 216 \/ type = 217
      THEN InsertPosAnySegment(b, offset + 2, insertPos)
    ELSE LET len == ReadU16(b, offset + 2) IN
      InsertPosAnySegment(b, offset + 2 + len, offset + 2 + len)

\* The while loop shared by insertXmpIntoJpeg and insertIptcIntoJpeg: the
\* end offset of the last APPn segment met, starting from insertPos.
RECURSIVE InsertPosFrom(_, _, _)
InsertPosFrom(b, offset, insertPos) ==
  IF offset + 4 > Len(b) THEN insertPos
  ELSE IF At(b, offset) # 255 THEN insertPos
  ELSE LET type == At(b, offset + 1) IN
    IF type = 218 THEN insertPos
    ELSE IF type = 216 \/ type = 217
      THEN InsertPosFrom(b, offset + 2, insertPos)
    ELSE LET len == ReadU16(b, offset + 2) IN
      InsertPosFrom(b, offset + 2 + len,
                    IF type >= 224 /\ type <= 239 THEN offset + 2 + len
                    ELSE insertPos)

\* The allocation and the three set calls that end both insert functions.
InsertAt(b, insertPos, seg) ==
  LET out == NewUint8Array(Len(b) + Len(seg))
      o1  == U8Set(out, Slice(b, 0, insertPos), 0)
      o2  == U8Set(o1, seg, insertPos)
  IN  U8Set(o2, SliceFrom(b, insertPos), insertPos + Len(seg))

\* An insert that never replaces an existing XMP segment.
InsertXmpAlways(b, xmpSeg) ==
  IF ~StartsWithSOI(b) THEN b
  ELSE InsertAt(b, InsertPosFrom(b, 2, 2), xmpSeg)

insertXmpIntoJpeg(b, xmpSeg) ==
  IF ~StartsWithSOI(b) THEN b
  ELSE LET existing == findExistingXmp(b) IN
    IF existing.found
      THEN replaceSegment(b, existing.start, existing.totalLen, xmpSeg)
      ELSE InsertAt(b, InsertPosFrom(b, 2, 2), xmpSeg)

insertIptcIntoJpeg(b, iptcSeg) ==
  IF ~StartsWithSOI(b) THEN b
  ELSE InsertAt(b, InsertPosFrom(b, 2, 2), iptcSeg)

\* The header comparison of removePhotoshopApp13Segments (bounds checked).
IsPhotoshopAt(b, o) ==
  \A i \in 0..(Len(PhotoshopHeader) - 1) :
    o + i < Len(b) /\ At(b, o + i) = PhotoshopHeader[i + 1]

\* A removal that copies only the SOS segment, not the scan behind it.
RECURSIVE RemoveFromSosOnly(_, _)
RemoveFromSosOnly(b, offset) ==
  IF offset + 4 > Len(b)
    THEN (IF offset < Len(b) THEN SliceFrom(b, offset) ELSE <<>>)
  ELSE IF At(b, offset) # 255 THEN SliceFrom(b, offset)
  ELSE LET type   == At(b, offset + 1)
           len    == ReadU16(b, offset + 2)
           segEnd == offset + 2 + len
       IN
    IF type = 218 THEN Slice(b, offset, segEnd)
    ELSE IF type = 237 /\ IsPhotoshopAt(b, offset + 4)
      THEN RemoveFromSosOnly(b, segEnd)
      ELSE Slice(b, offset, segEnd) \o RemoveFromSosOnly(b, segEnd)

\* A removal that drops the first Photoshop APP13 and keeps the rest.
RECURSIVE RemoveFromFirstOnly(_, _)
RemoveFromFirstOnly(b, offset) ==
  IF offset + 4 > Len(b)
    THEN (IF offset < Len(b) THEN SliceFrom(b, offset) ELSE <<>>)
  ELSE IF At(b, offset) # 255 THEN SliceFrom(b, offset)
  ELSE LET type   == At(b, offset + 1)
           len    == ReadU16(b, offset + 2)
           segEnd == offset + 2 + len
       IN
    IF type = 218 THEN SliceFrom(b, offset)
    ELSE IF type = 237 /\ IsPhotoshopAt(b, offset + 4)
      THEN SliceFrom(b, segEnd)
      ELSE Slice(b, offset, segEnd) \o RemoveFromFirstOnly(b, segEnd)

\* A removal that drops every APP13, whatever its header.
RECURSIVE RemoveFromAnyApp13(_, _)
RemoveFromAnyApp13(b, offset) ==
  IF offset + 4 > Len(b)
    THEN (IF offset < Len(b) THEN SliceFrom(b, offset) ELSE <<>>)
  ELSE IF At(b, offset) # 255 THEN SliceFrom(b, offset)
  ELSE LET type   == At(b, offset + 1)
           len    == ReadU16(b, offset + 2)
           segEnd == offset + 2 + len
       IN
    IF type = 218 THEN SliceFrom(b, offset)
    ELSE IF type = 237
      THEN RemoveFromAnyApp13(b, segEnd)
      ELSE Slice(b, offset, segEnd) \o RemoveFromAnyApp13(b, segEnd)

\* The while loop of removePhotoshopApp13Segments: the kept parts after SOI,
\* concatenated, with the remainder pushed after the loop.
RECURSIVE RemoveFrom(_, _)
RemoveFrom(b, offset) ==
  IF offset + 4 > Len(b)
    THEN (IF offset < Len(b) THEN SliceFrom(b, offset) ELSE <<>>)
  ELSE IF At(b, offset) # 255 THEN SliceFrom(b, offset)
  ELSE LET type   == At(b, offset + 1)
           len    == ReadU16(b, offset + 2)
           segEnd == offset + 2 + len
       IN
    IF type = 218 THEN SliceFrom(b, offset)
    ELSE IF type = 237 /\ IsPhotoshopAt(b, offset + 4)
      THEN RemoveFrom(b, segEnd)
      ELSE Slice(b, offset, segEnd) \o RemoveFrom(b, segEnd)

removePhotoshopApp13Segments(b) ==
  IF ~StartsWithSOI(b) THEN b
  ELSE Slice(b, 0, 2) \o RemoveFrom(b, 2)

(***************************************************************************)
(* IPTC IIM in a Photoshop 8BIM resource, in an APP13 segment              *)
(***************************************************************************)

\* pushRecord: 0x1C, record, dataset, the 2-byte length and the data.
pushRecord(arr, record, dataset, dataBytes) ==
  arr \o <<28, record, dataset,
           HiByte(Len(dataBytes)), LoByte(Len(dataBytes))>> \o dataBytes

\* for (const k of kws) pushRecord(payload, 2, 25, enc(k))
RECURSIVE PushKeywords(_, _)
PushKeywords(arr, kws) ==
  IF kws = <<>> THEN arr
  ELSE PushKeywords(pushRecord(arr, 2, 25, utf8(Head(kws))), Tail(kws))

\* The IIM payload: 1:90, 2:0, then 2:5, 2:120 and 2:25 for what is given.
IptcPayload(title, caption, keywordsArr) ==
  LET p1 == pushRecord(<<>>, 1, 90, utf8(<<27, 37, 71>>))
      p2 == pushRecord(p1, 2, 0, <<0, 4>>)
      p3 == IF title # <<>> THEN pushRecord(p2, 2, 5, utf8(title)) ELSE p2
      p4 == IF caption # <<>> THEN pushRecord(p3, 2, 120, utf8(caption))
            ELSE p3
  IN  PushKeywords(p4, FilterBoolean(keywordsArr))

\* The 8BIM resource block behind the "Photoshop 3.0\0" header.
IptcBlock(payloadBytes) ==
  LET nameLen == 0
      namePad == IF (nameLen + 1) % 2 = 1 THEN 1 ELSE 0
      size    == Len(payloadBytes)
      dataPad == IF size % 2 = 1 THEN 1 ELSE 0
  IN  PhotoshopHeader \o BimSignature \o <<4, 4>> \o <<0>>
        \o (IF namePad = 1 THEN <<0>> ELSE <<>>)
        \o <<(size \div 16777216) % 256, (size \div 65536) % 256,
             HiByte(size), LoByte(size)>>
        \o payloadBytes
        \o (IF dataPad = 1 THEN <<0>> ELSE <<>>)

buildIptcSegment(title, caption, keywordsArr) ==
  LET block  == IptcBlock(IptcPayload(title, caption, keywordsArr))
      length == Len(block) + 2
  IN  <<255, 237, HiByte(length), LoByte(length)>> \o block

(***************************************************************************)
(* Keyword splitting                                                       *)
(***************************************************************************)

\* The white space String.prototype.trim removes (the part of it in the BMP
\* that the inputs use): TAB, LF, VT, FF, CR, SPACE, NBSP, BOM.
WhiteSpace == {9, 10, 11, 12, 13, 32, 160, 65279}

RECURSIVE TrimStart(_)
TrimStart(s) ==
  IF s # <<>> /\ Head(s) \in WhiteSpace THEN TrimStart(Tail(s)) ELSE s

RECURSIVE TrimEnd(_)
TrimEnd(s) ==
  IF s # <<>> /\ s[Len(s)] \in WhiteSpace
    THEN TrimEnd(SubSeq(s, 1, Len(s) - 1)) ELSE s

\* s.trim()
Trim(s) == TrimEnd(TrimStart(s))

\* A split at the commas only.
RECURSIVE SplitAtCommas(_, _, _)
SplitAtCommas(s, i, cur) ==
  IF i > Len(s) THEN <<cur>>
  ELSE IF s[i] = 44
    THEN <<cur>> \o SplitAtCommas(s, i + 1, <<>>)
    ELSE SplitAtCommas(s, i + 1, Append(cur, s[i]))

\* s.split(/[,;]/): the pieces between the separators, empty ones included.
RECURSIVE SplitFrom(_, _, _)
SplitFrom(s, i, cur) ==
  IF i > Len(s) THEN <<cur>>
  ELSE IF s[i] = 44 \/ s[i] = 59
    THEN <<cur>> \o SplitFrom(s, i + 1, <<>>)
    ELSE SplitFrom(s, i + 1, Append(cur, s[i]))

RECURSIVE MapTrim(_)
MapTrim(parts) ==
  IF parts = <<>> THEN <<>> ELSE <<Trim(Head(parts))>> \o MapTrim(Tail(parts))

\* keywords.split(/[,;]/).map((s) => s.trim()).filter(Boolean)
kwList(keywords) == FilterBoolean(MapTrim(SplitFrom(keywords, 1, <<>>)))

(***************************************************************************)
(* The EXIF codec collaborator (piexifjs), as far as the buffer goes       *)
(***************************************************************************)

ExifSignature == <<69, 120, 105, 102, 0, 0>>

\* A segment with a 2-byte length in front of its payload.
Segment(marker, payload) ==
  <<255, marker, HiByte(Len(payload) + 2), LoByte(Len(payload) + 2)>>
    \o payload

\* The APP1 EXIF segment of a tag dictionary: the signature and a body that
\* stands for the encoded tags (here the first byte of the title, or 0).
ExifSegment(title) ==
  Segment(225, ExifSignature \o <<IF title = <<>> THEN 0 ELSE title[1] % 256>>)

\* The walk of the codec: every marker before SOS carries a length.  TRUE
\* when the walk reaches SOS inside the buffer.
RECURSIVE CodecReachesSOS(_, _)
CodecReachesSOS(b, offset) ==
  IF offset + 4 > Len(b) THEN FALSE
  ELSE IF At(b, offset) = 255 /\ At(b, offset + 1) = 218 THEN TRUE
  ELSE CodecReachesSOS(b, offset + 2 + ReadU16(b, offset + 2))

\* insert(exifBytes, jpegBytes): the first APP1 EXIF segment is replaced, or
\* the new one is put right behind SOI; the other segments stay.
RECURSIVE CodecMerge(_, _, _, _)
CodecMerge(b, offset, exifSeg, placed) ==
  IF At(b, offset) = 255 /\ At(b, offset + 1) = 218 THEN SliceFrom(b, offset)
  ELSE LET segEnd == offset + 2 + ReadU16(b, offset + 2)
           isExif == At(b, offset + 1) = 225
                     /\ Slice(b, offset + 4, offset + 10) = ExifSignature
       IN  (IF isExif THEN (IF placed THEN <<>> ELSE exifSeg)
            ELSE Slice(b, offset, segEnd))
             \o CodecMerge(b, segEnd, exifSeg, placed \/ isExif)

RECURSIVE CodecHasExif(_, _)
CodecHasExif(b, offset) ==
  IF At(b, offset) = 255 /\ At(b, offset + 1) = 218 THEN FALSE
  ELSE (At(b, offset + 1) = 225
        /\ Slice(b, offset + 4, offset + 10) = ExifSignature)
       \/ CodecHasExif(b, offset + 2 + ReadU16(b, offset + 2))

PiexifInsert(exifSeg, b) ==
  IF ~(StartsWithSOI(b) /\ CodecReachesSOS(b, 2)) THEN Thrown
  ELSE IF CodecHasExif(b, 2)
    THEN Slice(b, 0, 2) \o CodecMerge(b, 2, exifSeg, FALSE)
    ELSE Slice(b, 0, 2) \o exifSeg \o CodecMerge(b, 2, exifSeg, TRUE)

(***************************************************************************)
(* Inputs of the compositor                                                *)
(***************************************************************************)

\* Most pieces a generated input holds between SOI and its tail.
MaxPieces == 2

\* Most pipeline runs over one buffer.
MaxRuns == 2

SOI == <<255, 216>>

\* SOS with its header, entropy-coded bytes (a stuffed FF 00) and EOI.
ScanTail == <<255, 218, 0, 3, 1, 17, 255, 0, 34, 255, 217>>

\* What may stand between SOI and the tail: well-formed segments (an EXIF
\* APP1, an XMP APP1, a Photoshop APP13, an APP13 of another brand, a DQT),
\* and malformed pieces: a stand-alone EOI marker, a byte that is no marker
\* prefix, and an APP0 and an XMP APP1 whose declared length runs past the
\* end of the file.
Pieces ==
  { Segment(225, ExifSignature \o <<7>>),
    Segment(225, XmpSignature \o <<111>>),
    Segment(237, PhotoshopHeader \o <<9>>),
    Segment(237, <<65, 100, 111, 98, 101>>),
    Segment(219, <<0, 1>>),
    <<255, 217>>,
    <<0>>,
    <<255, 224, 0, 16, 74>>,
    <<255, 225, 0, 64>> \o XmpSignature }

RECURSIVE PieceLists(_)
PieceLists(n) ==
  IF n = 0 THEN {<<>>}
  ELSE LET shorter == PieceLists(n - 1)
       IN  shorter \cup {l \o p : l \in {s \in shorter : TRUE}, p \in Pieces}

\* SOI, the pieces, then the scan or nothing (a truncated file).
Inputs ==
  {SOI \o l \o t : l \in PieceLists(MaxPieces), t \in {ScanTail, <<>>}}

\* The rows of the spreadsheet, as strings of code points.
Rows ==
  { [title |-> <<>>, caption |-> <<>>, description |-> <<>>,
     keywords |-> <<>>],
    [title |-> <<97, 38>>, caption |-> <<99>>, description |-> <<269>>,
     keywords |-> <<107, 59, 32, 108, 44>>] }


(***************************************************************************)
(* Strings of the orchestrator (sequences of UTF-16 code units; the        *)
(* characters of the model are all in the Basic Multilingual Plane)        *)
(***************************************************************************)

\* String.prototype.toLowerCase, one code unit: ASCII, Latin-1 and Latin
\* Extended-A letters; every other unit of the model has no lower case.
ToLowerCaseUnit(c) ==
  IF c >= 65 /\ c <= 90 THEN c + 32
  ELSE IF c >= 192 /\ c <= 222 /\ c # 215 THEN c + 32
  ELSE IF c >= 256 /\ c <= 311 /\ c % 2 = 0 THEN c + 1
  ELSE IF c >= 313 /\ c <= 328 /\ c % 2 = 1 THEN c + 1
  ELSE IF c >= 330 /\ c <= 375 /\ c % 2 = 0 THEN c + 1
  ELSE IF c >= 377 /\ c <= 382 /\ c % 2 = 1 THEN c + 1
  ELSE c

\* s.toLowerCase()
toLowerCase(s) == [i \in 1..Len(s) |-> ToLowerCaseUnit(s[i])]

\* s.endsWith(suffix)
endsWith(s, suffix) ==
  /\ Len(s) >= Len(suffix)
  /\ SubSeq(s, Len(s) - Len(suffix) + 1, Len(s)) = suffix

DotJpg == <<46, 106, 112, 103>>

DotJpeg == <<46, 106, 112, 101, 103>>

\* /\.jpe?g$/i.test(s)
TestJpegName(s) ==
  endsWith(toLowerCase(s), DotJpg) \/ endsWith(toLowerCase(s), DotJpeg)

\* The replacement of one Serbian letter (map[m] || m).
SerbianMap(c) ==
  CASE c = 352 -> <<83>>
    [] c = 353 -> <<115>>
    [] c = 272 -> <<68, 74>>
    [] c = 273 -> <<100, 106>>
    [] c = 268 -> <<67>>
    [] c = 269 -> <<99>>
    [] c = 262 -> <<67>>
    [] c = 263 -> <<99>>
    [] c = 381 -> <<90>>
    [] c = 382 -> <<122>>
    [] OTHER -> <<c>>

\* s.replace(/DŽ|dž|Š|š|Đ|đ|Č|č|Ć|ć|Ž|ž/g, (m) => map[m] || m): the digraphs
\* D+Ž and d+ž are matched first, from left to right.
RECURSIVE transliterateSerbian(_)
transliterateSerbian(s) ==
  IF s = <<>> THEN <<>>
  ELSE IF Len(s) >= 2 /\ s[1] = 68 /\ s[2] = 381
    THEN <<68, 90>> \o transliterateSerbian(SubSeq(s, 3, Len(s)))
  ELSE IF Len(s) >= 2 /\ s[1] = 100 /\ s[2] = 382
    THEN <<100, 122>> \o transliterateSerbian(SubSeq(s, 3, Len(s)))
  ELSE SerbianMap(Head(s)) \o transliterateSerbian(Tail(s))

\* The chain of punctuation replacements, one code unit.
AsciiPunctuation(c) ==
  CASE c \in {8211, 8212} -> <<45>>
    [] c \in {8220, 8221, 8222} -> <<34>>
    [] c \in {8217, 8216} -> <<39>>
    [] c = 8230 -> <<46, 46, 46>>
    [] c = 8226 -> <<42>>
    [] c = 8482 -> <<40, 84, 77, 41>>
    [] c = 174 -> <<40, 82, 41>>
    [] c = 169 -> <<40, 67, 41>>
    [] OTHER -> <<c>>

\* String.prototype.normalize("NFKD"), one code unit, for the letters of
\* the model: NBSP, e acute, the euro sign (no decomposition), the fi
\* ligature; the Serbian letters decompose to a base letter and a combining
\* mark, d with stroke does not decompose.
Nfkd(c) ==
  CASE c = 160 -> <<32>>
    [] c = 233 -> <<101, 769>>
    [] c = 64257 -> <<102, 105>>
    [] c = 268 -> <<67, 780>>
    [] c = 269 -> <<99, 780>>
    [] c = 262 -> <<67, 769>>
    [] c = 263 -> <<99, 769>>
    [] c = 352 -> <<83, 780>>
    [] c = 353 -> <<115, 780>>
    [] c = 381 -> <<90, 780>>
    [] c = 382 -> <<122, 780>>
    [] OTHER -> <<c>>

\* The units of s, each replaced by the string the named step gives for it.
RECURSIVE FlatMapUnits(_, _)
FlatMapUnits(s, kind) ==
  IF s = <<>> THEN <<>>
  ELSE (CASE kind = "punctuation" -> AsciiPunctuation(Head(s))
          [] kind = "nfkd" -> Nfkd(Head(s))
          [] kind = "ascii" -> IF Head(s) <= 127 THEN <<Head(s)>> ELSE <<>>)
         \o FlatMapUnits(Tail(s), kind)

\* A variant of sanitizeAsciiText that forgets to drop what is left above
\* 0x7F.
SanitizeWithoutStrip(s) ==
  FlatMapUnits(FlatMapUnits(transliterateSerbian(s), "punctuation"), "nfkd")

\* sanitizeAsciiText(s)
sanitizeAsciiText(s) ==
  FlatMapUnits(
    FlatMapUnits(FlatMapUnits(transliterateSerbian(s), "punctuation"), "nfkd"),
    "ascii")

\* encodeXP(str): UTF-16LE bytes and a null terminator.
RECURSIVE encodeXP(_)
encodeXP(str) ==
  IF str = <<>> THEN <<0, 0>>
  ELSE <<Head(str) % 256, (Head(str) \div 256) % 256>> \o encodeXP(Tail(str))

(***************************************************************************)
(* The state of the App component and of an applyMetadata call             *)
(***************************************************************************)

VARIABLES
  images,      \* useState: the list of {file, status, updatedBlob, newName, error}
  xlsxRows,    \* useState: the rows of the spreadsheet
  processing,  \* useState: the flag behind the Apply Metadata button
  runPc,       \* where the applyMetadata call is: idle, loop, read, load,
               \* dump, insert, dump2, insert2, blob, splice
  runImages,   \* `images` as the call's closure holds it
  runRows,     \* `xlsxRows` as the call's closure holds it (rowMap is its memo)
  out,         \* const out = []
  idx,         \* the position of `img` in the for loop
  exifObj,     \* the tag dictionary of the current image
  work,        \* dataUrl, then exifBytes with it, then newDataUrl, then bytes
  attempts,    \* the dump-and-insert attempts on the current image
  events,      \* the user's selections and clears so far
  applies,     \* the applyMetadata calls so far
  faults       \* the failures of the collaborators so far

appVars ==
  <<images, xlsxRows, processing, runPc, runImages, runRows, out, idx,
    exifObj, work, attempts, events, applies, faults>>

\* null and a value v, as a sequence of no or one element.
Null == <<>>

Some(v) == <<v>>

NoTags ==
  [ImageDescription |-> <<>>, XPTitle |-> Null, XPComment |-> Null,
   XPKeywords |-> Null]

NoAttempts == [tries |-> 0, failed |-> 0, cleared |-> FALSE, spliced |-> FALSE]

NoWork == [dataUrl |-> <<>>, exifBytes |-> <<>>, bytes |-> <<>>]

\* The component before anything is selected; no call is running.
AppIdle ==
  /\ images = <<>>
  /\ xlsxRows = <<>>
  /\ processing = FALSE
  /\ runPc = "idle"
  /\ runImages = <<>>
  /\ runRows = <<>>
  /\ out = <<>>
  /\ idx = 1
  /\ exifObj = NoTags
  /\ work = NoWork
  /\ attempts = NoAttempts
  /\ events = 0
  /\ applies = 0
  /\ faults = 0

(***************************************************************************)
(* The texts of one row on their way into the tags, the segments and the   *)
(* output name; and one segment walk, step by step                         *)
(***************************************************************************)

VARIABLES
  rowIn,     \* the row's texts and the image's file name
  rowPc,     \* fields, tags, segments, named
  rowTags,   \* exifObj after the tags are set
  rowKw,     \* kwList
  rowXmp,    \* xmpSeg
  rowIptc,   \* iptcSeg
  rowName    \* next.newName

rowVars == <<rowIn, rowPc, rowTags, rowKw, rowXmp, rowIptc, rowName>>

VARIABLES
  walkFn,       \* the function whose loop runs: find, xmp, iptc, remove
  walkBuf,      \* jpegBytes
  walkOffset,   \* offset
  walkPc,       \* start, loop, done
  walkVisited,  \* the offsets at which the loop body read a marker
  walkInsertPos,\* insertPos of the two insert functions
  walkParts,    \* parts of removePhotoshopApp13Segments, concatenated
  walkFound     \* what findExistingXmp returns: null or {start, totalLen}

walkVars == <<walkFn, walkBuf, walkOffset, walkPc, walkVisited,
              walkInsertPos, walkParts, walkFound>>

\* The variables of the row's texts while another part is looked at.
RowIdle ==
  /\ rowIn = [title |-> <<>>]
  /\ rowPc = "idle"
  /\ rowTags = <<>>
  /\ rowKw = <<>>
  /\ rowXmp = <<>>
  /\ rowIptc = <<>>
  /\ rowName = <<>>

\* The variables of the walk while another part is looked at.
WalkIdle ==
  /\ walkFn = "none"
  /\ walkBuf = <<>>
  /\ walkOffset = 0
  /\ walkPc = "idle"
  /\ walkVisited = <<>>
  /\ walkInsertPos = 0
  /\ walkParts = <<>>
  /\ walkFound = <<>>
(***************************************************************************)
(* The splice pipeline of applyMetadata over one buffer                    *)
(***************************************************************************)

VARIABLES
  jpegIn,   \* the buffer the first run started from
  bytes,    \* the current buffer (`bytes`, or the data URL before it)
  before,   \* the buffer the last stage was applied to
  lastOp,   \* the last stage applied: none, exif, xmp, remove, iptc
  pc,       \* the next stage: exif, xmp, remove, iptc, done, error
  row,      \* the metadata of this run
  entry,    \* the stage the first run entered at
  runs      \* completed runs

pipeVars == <<jpegIn, bytes, before, lastOp, pc, row, entry, runs>>

\* The builders on their own (segment framing).
VARIABLES
  frameIn,  \* the texts given to the builders, each as [ch, n]: n times ch
  framePc,  \* input, xmp (the XMP segment is built), iptc (both are built)
  xmpOut,   \* the 4 bytes in front of the built XMP segment and its length
  iptcOut   \* the same of the built IPTC segment

frameVars == <<frameIn, framePc, xmpOut, iptcOut>>

vars == <<pipeVars, frameVars, appVars, rowVars, walkVars>>

\* The variables of the builders while the pipeline is looked at.
FrameIdle ==
  /\ frameIn = [title |-> [ch |-> 0, n |-> 0]]
  /\ framePc = "idle"
  /\ xmpOut = [head |-> <<>>, length |-> 0]
  /\ iptcOut = [head |-> <<>>, length |-> 0]

xmpSegOf(r) ==
  buildXmpSegment(buildXmpXml(r.title, r.description, kwList(r.keywords)))

iptcSegOf(r) == buildIptcSegment(r.title, r.caption, kwList(r.keywords))

\* One stage: `result` is what it returns; a thrown exception ends the run in error.
Stage(op, result, next) ==
  /\ pc = op
  /\ before' = bytes
  /\ lastOp' = op
  /\ IF result = Thrown
       THEN bytes' = bytes /\ pc' = "error"
       ELSE bytes' = result /\ pc' = next
  /\ UNCHANGED <<jpegIn, row, entry, runs>>
  /\ UNCHANGED frameVars
  /\ UNCHANGED <<appVars, rowVars, walkVars>>

\* piexif.insert(exifBytes, dataUrl)
ExifInsert ==
  /\ Stage("exif", PiexifInsert(ExifSegment(row.title), bytes), "xmp")

\* bytes = insertXmpIntoJpeg(bytes, xmpSeg)
InsertXmp ==
  /\ Stage("xmp", insertXmpIntoJpeg(bytes, xmpSegOf(row)), "remove")

\* bytes = removePhotoshopApp13Segments(bytes)
RemovePhotoshop ==
  /\ Stage("remove", removePhotoshopApp13Segments(bytes), "iptc")

\* bytes = insertIptcIntoJpeg(bytes, iptcSeg)
InsertIptc ==
  /\ Stage("iptc", insertIptcIntoJpeg(bytes, iptcSegOf(row)), "done")

\* The output is given to the pipeline again, with the same or another row.
Rerun ==
  /\ pc = "done"
  /\ runs < MaxRuns - 1
  /\ \E r \in Rows : row' = r
  /\ runs' = runs + 1
  /\ pc' = "exif"
  /\ before' = bytes
  /\ lastOp' = "none"
  /\ UNCHANGED <<jpegIn, bytes, entry>>
  /\ UNCHANGED frameVars
  /\ UNCHANGED <<appVars, rowVars, walkVars>>

PipeInit ==
  /\ jpegIn \in Inputs
  /\ bytes = jpegIn
  /\ before = jpegIn
  /\ lastOp = "none"
  /\ entry \in {"exif", "xmp", "remove", "iptc"}
  /\ pc = entry
  /\ row \in Rows
  /\ runs = 0
  /\ FrameIdle
  /\ AppIdle
  /\ RowIdle
  /\ WalkIdle

PipeNext == ExifInsert \/ InsertXmp \/ RemovePhotoshop \/ InsertIptc \/ Rerun

Spec == PipeInit /\ [][PipeNext]_vars

(***************************************************************************)
(* The segment builders over texts of any length                           *)
(***************************************************************************)

\* Most characters of a short text.
MaxShortText == 2

\* The length of the long text: with the packet around it, more than the 2
\* length bytes of a segment can count.
LongText == 65000

\* The length of the long keyword, in euro signs of 3 bytes each: more bytes
\* than the 2 length bytes of an IIM record can count.
LongKeyword == 22000

\* n times the character ch.
Text(t) == [i \in 1..t.n |-> t.ch]

\* a, &, c with caron, euro sign: 1, 1 (5 when escaped), 2 and 3 bytes.
TextChars == {97, 38, 269, 8364}

ShortTexts ==
  {[ch |-> 0, n |-> 0]}
    \cup {[ch |-> c, n |-> k] : c \in TextChars, k \in 1..MaxShortText}

FrameInputs ==
  [ title       : ShortTexts \cup {[ch |-> 97, n |-> LongText]},
    description : {[ch |-> 0, n |-> 0], [ch |-> 38, n |-> 1]},
    caption     : {[ch |-> 0, n |-> 0], [ch |-> 269, n |-> MaxShortText]},
    keywords    : {<<>>, <<[ch |-> 8364, n |-> 1], [ch |-> 0, n |-> 0],
                          [ch |-> 97, n |-> MaxShortText]>>,
                   <<[ch |-> 97, n |-> 1],
                     [ch |-> 8364, n |-> LongKeyword]>>} ]

RECURSIVE Texts(_)
Texts(ts) == IF ts = <<>> THEN <<>> ELSE <<Text(Head(ts))>> \o Texts(Tail(ts))

\* What is kept of a built segment: its first 4 bytes and its length.
Framing(seg) == [head |-> SubSeq(seg, 1, 4), length |-> Len(seg)]

\* const xmpSeg = buildXmpSegment(buildXmpXml(title, description, kwList))
BuildXmp ==
  /\ framePc = "input"
  /\ xmpOut' = Framing(buildXmpSegment(
                 buildXmpXml(Text(frameIn.title), Text(frameIn.description),
                             Texts(frameIn.keywords))))
  /\ framePc' = "xmp"
  /\ UNCHANGED <<frameIn, iptcOut>>
  /\ UNCHANGED pipeVars
  /\ UNCHANGED <<appVars, rowVars, walkVars>>

\* const iptcSeg = buildIptcSegment(title, caption, kwList)
BuildIptc ==
  /\ framePc = "xmp"
  /\ iptcOut' = Framing(buildIptcSegment(
                  Text(frameIn.title), Text(frameIn.caption),
                  Texts(frameIn.keywords)))
  /\ framePc' = "iptc"
  /\ UNCHANGED <<frameIn, xmpOut>>
  /\ UNCHANGED pipeVars
  /\ UNCHANGED <<appVars, rowVars, walkVars>>

\* The variables of the pipeline while the builders are looked at.
PipeIdle ==
  /\ jpegIn = <<>> /\ bytes = <<>> /\ before = <<>>
  /\ lastOp = "none" /\ pc = "idle" /\ entry = "idle"
  /\ row = [title |-> <<>>] /\ runs = 0

FrameInit ==
  /\ frameIn \in FrameInputs
  /\ framePc = "input"
  /\ xmpOut = [head |-> <<>>, length |-> 0]
  /\ iptcOut = [head |-> <<>>, length |-> 0]
  /\ PipeIdle
  /\ AppIdle
  /\ RowIdle
  /\ WalkIdle

FrameNext == BuildXmp \/ BuildIptc

SpecFrame == FrameInit /\ [][FrameNext]_vars

(***************************************************************************)
(* The App component: selections, clears and applyMetadata                 *)
(***************************************************************************)

\* Most files of one selection.
MaxImages == 2

\* Most rows of one spreadsheet.
MaxSheetRows == 2

\* Most selections and clears in one behaviour.
MaxEvents == 3

\* Most applyMetadata calls in one behaviour.
MaxApplies == 2

\* Most failures of the collaborators (FileReader, piexif) in one behaviour.
MaxFaults == 2

\* "jpeg"
JpegWord == <<106, 112, 101, 103>>

\* s.includes(sub)
includes(s, sub) ==
  \/ sub = <<>>
  \/ \E i \in 1..(Len(s) - Len(sub) + 1) : SubSeq(s, i, i + Len(sub) - 1) = sub

\* The files the user can pick: a.jpg without a MIME type, holding a
\* Photoshop APP13 already; the same name behind a space, with the MIME type;
\* b.png.
AppFiles ==
  { [name |-> <<97, 46, 106, 112, 103>>,
     type |-> <<>>,
     data |-> SOI \o Segment(237, PhotoshopHeader \o <<9>>) \o ScanTail],
    [name |-> <<32, 97, 46, 106, 112, 103>>,
     type |-> <<105, 109, 97, 103, 101, 47, 106, 112, 101, 103>>,
     data |-> SOI \o ScanTail],
    [name |-> <<98, 46, 112, 110, 103>>,
     type |-> <<105, 109, 97, 103, 101, 47, 112, 110, 103>>,
     data |-> SOI \o ScanTail] }

\* The rows a sheet can hold, keyed by the canonical header that getField
\* resolves: a row for a.jpg, and a row for " A.JPG " with an output name and
\* other texts.
SheetRows ==
  { [source |-> <<97, 46, 106, 112, 103>>, output |-> <<>>,
     title |-> <<97, 38>>, caption |-> <<99>>, description |-> <<269>>,
     keywords |-> <<107, 59, 32, 108, 44>>],
    [source |-> <<32, 65, 46, 74, 80, 71, 32>>, output |-> <<100, 382>>,
     title |-> <<>>, caption |-> <<8211, 233>>, description |-> <<>>,
     keywords |-> <<>>] }

RECURSIVE ListsOf(_, _)
ListsOf(S, n) ==
  IF n = 0 THEN {<<>>}
  ELSE LET shorter == ListsOf(S, n - 1)
       IN  shorter \cup {Append(l, x) : l \in shorter, x \in S}

\* The elements of a list.
Range(l) == {l[i] : i \in 1..Len(l)}

\* A selection holds a file once.
FileLists ==
  {l \in ListsOf(AppFiles, MaxImages) : l # <<>> /\ Cardinality(Range(l)) = Len(l)}

SheetLists == ListsOf(SheetRows, MaxSheetRows)

\* (getField(r, "Source file name") || "").toString().trim().toLowerCase()
RowKey(r) == toLowerCase(Trim(r.source))

\* The memo rowMap: every row with a non-empty key, a later row replacing an
\* earlier one of the same key.
rowMap(rows) ==
  LET keyed == {i \in 1..Len(rows) : RowKey(rows[i]) # <<>>}
      last(k) == CHOOSE i \in keyed :
                   /\ RowKey(rows[i]) = k
                   /\ \A j \in keyed : RowKey(rows[j]) = k => j <= i
  IN  [k \in {RowKey(rows[i]) : i \in keyed} |-> rows[last(k)]]

\* rowMap.get(key): null for undefined.
MapGet(m, key) == IF key \in DOMAIN m THEN Some(m[key]) ELSE Null

\* files.map((f) => ({file: f, status: "pending", ...}))
Prepared(files) ==
  [i \in 1..Len(files) |->
     [file |-> files[i], status |-> "pending", updatedBlob |-> Null,
      newName |-> <<45>>, error |-> Null]]

\* The tags applyMetadata sets in the loaded dictionary.
TagsOf(r) ==
  [ImageDescription |->
     sanitizeAsciiText(IF r.description # <<>> THEN r.description
                       ELSE r.caption),
   XPTitle |-> IF r.title # <<>> THEN Some(encodeXP(r.title)) ELSE Null,
   XPComment |-> IF r.caption # <<>> THEN Some(encodeXP(r.caption)) ELSE Null,
   XPKeywords |->
     IF r.keywords # <<>> THEN Some(encodeXP(r.keywords)) ELSE Null]

\* The bytes of a tag that may be absent.
TagBytes(t) == IF t = Null THEN <<>> ELSE t[1]

\* piexif.dump(exifObj): the APP1 EXIF segment of the dictionary, its body
\* standing for the encoded tags.
piexifDump(obj) ==
  Segment(225, ExifSignature \o obj.ImageDescription \o <<0>>
                 \o TagBytes(obj.XPTitle) \o TagBytes(obj.XPComment)
                 \o TagBytes(obj.XPKeywords))

\* The image and the row the loop is at.
Img == runImages[idx]

ImgRow == MapGet(rowMap(runRows), toLowerCase(Img.file.name))[1]

\* One step of the call: the component's state stays.
Run(pc2, out2, idx2, exif2, work2, att2) ==
  /\ runPc' = pc2
  /\ out' = out2
  /\ idx' = idx2
  /\ exifObj' = exif2
  /\ work' = work2
  /\ attempts' = att2
  /\ UNCHANGED <<images, xlsxRows, processing, runImages, runRows, events,
                 applies>>
  /\ UNCHANGED <<pipeVars, frameVars, rowVars, walkVars>>

\* next.status = "error"; next.error = message; out.push(next); and on to
\* the next image.
Failed(message, att2) ==
  Run("loop",
      Append(out, [Img EXCEPT !.status = "error", !.error = Some(message)]),
      idx + 1, exifObj, NoWork, att2)

\* err?.message of what piexif throws, of a RangeError, and the text used
\* when the rejection carries no message (the FileReader's error event).
PiexifMessage == "piexif error"

RangeMessage == "offset is out of bounds"

DefaultMessage == "Failed to update metadata."

\* What a call of a collaborator can do: return (TRUE) or throw (FALSE).
Outcomes == IF faults < MaxFaults THEN BOOLEAN ELSE {TRUE}

\* The click on Apply Metadata, up to the loop.
applyMetadata ==
  /\ runPc = "idle"
  /\ applies < MaxApplies
  /\ ~processing
  /\ images # <<>>
  /\ xlsxRows # <<>>
  /\ processing' = TRUE
  /\ runImages' = images
  /\ runRows' = xlsxRows
  /\ out' = <<>>
  /\ idx' = 1
  /\ runPc' = "loop"
  /\ applies' = applies + 1
  /\ exifObj' = NoTags
  /\ work' = NoWork
  /\ attempts' = NoAttempts
  /\ UNCHANGED <<images, xlsxRows, events, faults>>
  /\ UNCHANGED <<pipeVars, frameVars, rowVars, walkVars>>

\* The head of the loop body: the JPEG check and the row lookup.
ImageChecks ==
  /\ runPc = "loop"
  /\ idx <= Len(runImages)
  /\ IF /\ ~includes(Img.file.type, JpegWord)
        /\ ~endsWith(toLowerCase(Img.file.name), DotJpg)
       THEN Failed("Only JPEG is supported.", NoAttempts)
     ELSE IF MapGet(rowMap(runRows), toLowerCase(Img.file.name)) = Null
       THEN Failed("No matching row in XLSX.", NoAttempts)
     ELSE Run("read", out, idx, NoTags, NoWork, NoAttempts)
  /\ UNCHANGED faults

\* await fileToDataURL(img.file)
FileToDataURL ==
  /\ runPc = "read"
  /\ \E ok \in Outcomes :
       /\ faults' = (IF ok THEN faults ELSE faults + 1)
       /\ IF ok
         THEN Run("load", out, idx, exifObj,
                  [work EXCEPT !.dataUrl = Img.file.data], attempts)
         ELSE Failed(DefaultMessage, attempts)

\* piexif.load(dataUrl) and the tags set in the dictionary
Load ==
  /\ runPc = "load"
  /\ \E ok \in Outcomes :
       /\ faults' = (IF ok THEN faults ELSE faults + 1)
       /\ IF ok
         THEN Run("dump", out, idx, TagsOf(ImgRow), work, attempts)
         ELSE Failed(PiexifMessage, attempts)

\* const exifBytes = piexif.dump(exifObj), outside the inner try
Dump ==
  /\ runPc = "dump"
  /\ \E ok \in Outcomes :
       /\ faults' = (IF ok THEN faults ELSE faults + 1)
       /\ IF ok
         THEN Run("insert", out, idx, exifObj,
                  [work EXCEPT !.exifBytes = piexifDump(exifObj)],
                  [attempts EXCEPT !.tries = @ + 1])
         ELSE Failed(PiexifMessage,
                     [attempts EXCEPT !.tries = @ + 1, !.failed = @ + 1])

\* try { newDataUrl = piexif.insert(exifBytes, dataUrl) } catch { clear }
Insert ==
  /\ runPc = "insert"
  /\ LET inserted == PiexifInsert(work.exifBytes, work.dataUrl)
     IN  \E ok \in Outcomes :
           /\ faults' = (IF ok THEN faults ELSE faults + 1)
           /\ IF ok /\ inserted # Thrown
             THEN Run("blob", out, idx, exifObj,
                      [work EXCEPT !.bytes = inserted], attempts)
             ELSE Run("dump2", out, idx,
                      [exifObj EXCEPT !.ImageDescription = <<>>], work,
                      [attempts EXCEPT !.failed = @ + 1, !.cleared = TRUE])

\* const exifBytes2 = piexif.dump(exifObj), in the inner catch
DumpRetry ==
  /\ runPc = "dump2"
  /\ \E ok \in Outcomes :
       /\ faults' = (IF ok THEN faults ELSE faults + 1)
       /\ IF ok
         THEN Run("insert2", out, idx, exifObj,
                  [work EXCEPT !.exifBytes = piexifDump(exifObj)],
                  [attempts EXCEPT !.tries = @ + 1])
         ELSE Failed(PiexifMessage,
                     [attempts EXCEPT !.tries = @ + 1, !.failed = @ + 1])

\* newDataUrl = piexif.insert(exifBytes2, dataUrl), in the inner catch
InsertRetry ==
  /\ runPc = "insert2"
  /\ LET inserted == PiexifInsert(work.exifBytes, work.dataUrl)
     IN  \E ok \in Outcomes :
           /\ faults' = (IF ok THEN faults ELSE faults + 1)
           /\ IF ok /\ inserted # Thrown
             THEN Run("blob", out, idx, exifObj,
                      [work EXCEPT !.bytes = inserted], attempts)
             ELSE Failed(PiexifMessage, [attempts EXCEPT !.failed = @ + 1])

\* await tempBlob.arrayBuffer()
ArrayBuffer ==
  /\ runPc = "blob"
  /\ Run("splice", out, idx, exifObj, work, attempts)
  /\ UNCHANGED faults

\* /\.jpe?g$/i.test(safeOutputName) ? safeOutputName : safeOutputName + ".jpg"
NewName(r, file) ==
  LET outputName == IF r.output # <<>> THEN r.output ELSE file.name
      safeOutputName == transliterateSerbian(outputName)
  IN  IF TestJpegName(safeOutputName) THEN safeOutputName
      ELSE safeOutputName \o DotJpg

\* The three splices, the blob and the updated result.
SpliceStages ==
  /\ runPc = "splice"
  /\ LET withXmp == insertXmpIntoJpeg(work.bytes, xmpSegOf(ImgRow))
         cleaned == removePhotoshopApp13Segments(withXmp)
         withIptc == insertIptcIntoJpeg(cleaned, iptcSegOf(ImgRow))
         spliced == [attempts EXCEPT !.spliced = TRUE]
     IN  IF withXmp = Thrown \/ withIptc = Thrown
           THEN Failed(RangeMessage, spliced)
           ELSE Run("loop",
                    Append(out, [Img EXCEPT !.updatedBlob = Some(withIptc),
                                            !.newName = NewName(ImgRow, Img.file),
                                            !.status = "updated"]),
                    idx + 1, exifObj, NoWork, spliced)
  /\ UNCHANGED faults

\* setImages(out); setProcessing(false)
SetImagesOut ==
  /\ runPc = "loop"
  /\ idx > Len(runImages)
  /\ images' = out
  /\ processing' = FALSE
  /\ runPc' = "idle"
  /\ UNCHANGED <<xlsxRows, runImages, runRows, out, idx, exifObj, work,
                 attempts, events, applies, faults>>
  /\ UNCHANGED <<pipeVars, frameVars, rowVars, walkVars>>

\* A handler of the user runs when no call is running or the call waits in
\* one of its awaits.
AtAwait == runPc \in {"idle", "read", "blob"}

Event(images2, rows2, processing2) ==
  /\ AtAwait
  /\ events < MaxEvents
  /\ events' = events + 1
  /\ images' = images2
  /\ xlsxRows' = rows2
  /\ processing' = processing2
  /\ UNCHANGED <<runPc, runImages, runRows, out, idx, exifObj, work,
                 attempts, applies, faults>>
  /\ UNCHANGED <<pipeVars, frameVars, rowVars, walkVars>>

onImagesSelected ==
  /\ \E files \in FileLists : Event(Prepared(files), xlsxRows, processing)

\* The sheet is read, or the read fails and the rows are emptied.
onXlsxSelected ==
  /\ \E rows \in SheetLists : Event(images, rows, processing)

clearUploads ==
  /\ images # <<>> \/ xlsxRows # <<>>
  /\ Event(<<>>, <<>>, FALSE)

clearImages ==
  /\ images # <<>>
  /\ Event(<<>>, xlsxRows, FALSE)

clearXlsx ==
  /\ xlsxRows # <<>>
  /\ Event(images, <<>>, FALSE)

AppInit ==
  /\ AppIdle
  /\ PipeIdle
  /\ FrameIdle
  /\ RowIdle
  /\ WalkIdle

AppNext ==
  \/ onImagesSelected \/ onXlsxSelected
  \/ clearUploads \/ clearImages \/ clearXlsx
  \/ applyMetadata \/ ImageChecks \/ FileToDataURL \/ Load
  \/ Dump \/ Insert \/ DumpRetry \/ InsertRetry
  \/ ArrayBuffer \/ SpliceStages \/ SetImagesOut

SpecApp == AppInit /\ [][AppNext]_vars

(***************************************************************************)
(* One row's texts through applyMetadata                                   *)
(***************************************************************************)

\* Most characters of a generated description and of a generated name stem.
MaxText == 2

\* Most characters of a generated Keywords string.
MaxKeywordText == 5

\* a, SPACE, c with caron, e acute, the trade mark sign, the euro sign, D
\* with stroke.
DescriptionChars == {97, 32, 269, 233, 8482, 8364, 272}

\* k, the comma, the semicolon, SPACE.
KeywordChars == {107, 44, 59, 32}

\* d, D, z with caron, Z with caron, e acute.
StemChars == {100, 68, 382, 381, 233}

\* Nothing, .jpg, .JPG, .jpeg, .Jpeg, .png, ".jpg " and jpg without a dot.
NameEndings ==
  { <<>>, DotJpg, <<46, 74, 80, 71>>, DotJpeg, <<46, 74, 112, 101, 103>>,
    <<46, 112, 110, 103>>, DotJpg \o <<32>>, <<106, 112, 103>> }

PlainRow ==
  [title |-> <<116>>, caption |-> <<>>, description |-> <<>>,
   keywords |-> <<>>, output |-> <<>>, name |-> <<97, 46, 106, 112, 103>>]

\* The rows looked at: every description with no, a plain and a non-ASCII
\* caption; every Keywords string; every output name made of a stem and an
\* ending, and every such file name under an empty output name; the titles.
RowInputs ==
  {[PlainRow EXCEPT !.description = d, !.caption = c] :
     d \in ListsOf(DescriptionChars, MaxText),
     c \in {<<>>, <<99>>, <<8211, 233>>}}
  \cup {[PlainRow EXCEPT !.keywords = k] :
          k \in ListsOf(KeywordChars, MaxKeywordText)}
  \cup {[PlainRow EXCEPT !.output = s \o e] :
          s \in ListsOf(StemChars, MaxText), e \in NameEndings}
  \cup {[PlainRow EXCEPT !.name = s \o e] :
          s \in ListsOf(StemChars, MaxText) \ {<<>>}, e \in NameEndings}
  \cup {[PlainRow EXCEPT !.title = t] : t \in {<<>>, <<269, 38>>}}

RowStep(from, to) ==
  /\ rowPc = from
  /\ rowPc' = to
  /\ UNCHANGED rowIn
  /\ UNCHANGED <<pipeVars, frameVars, appVars, walkVars>>

\* The tags set in exifObj["0th"].
SetTags ==
  /\ RowStep("fields", "tags")
  /\ rowTags' = TagsOf(rowIn)
  /\ UNCHANGED <<rowKw, rowXmp, rowIptc, rowName>>

\* kwList, xmpSeg and iptcSeg.
BuildSegments ==
  /\ RowStep("tags", "segments")
  /\ rowKw' = kwList(rowIn.keywords)
  /\ rowXmp' = xmpSegOf(rowIn)
  /\ rowIptc' = iptcSegOf(rowIn)
  /\ UNCHANGED <<rowTags, rowName>>

\* next.newName
SetNewName ==
  /\ RowStep("segments", "named")
  /\ rowName' = NewName(rowIn, rowIn)
  /\ UNCHANGED <<rowTags, rowKw, rowXmp, rowIptc>>

RowInit ==
  /\ rowIn \in RowInputs
  /\ rowPc = "fields"
  /\ rowTags = NoTags
  /\ rowKw = <<>>
  /\ rowXmp = <<>>
  /\ rowIptc = <<>>
  /\ rowName = <<>>
  /\ PipeIdle
  /\ FrameIdle
  /\ AppIdle
  /\ WalkIdle

RowNext == SetTags \/ BuildSegments \/ SetNewName

SpecRow == RowInit /\ [][RowNext]_vars

(***************************************************************************)
(* The four segment walks, one loop iteration per step                     *)
(***************************************************************************)

WalkFns == {"find", "xmp", "iptc", "remove"}

\* Segments whose declared length is 0 or 1 (less than the two bytes of the
\* length field itself).
ShortLengthPieces ==
  { <<255, 219, 0, 0>>, <<255, 219, 0, 1>>,
    <<255, 225, 0, 0>>, <<255, 237, 0, 1>> }

\* The buffers walked: the inputs of the compositor, buffers with a segment
\* of declared length 0 or 1, alone or behind a DQT, and a buffer that does
\* not start with SOI.
WalkInputs ==
  Inputs
    \cup {SOI \o l \o p \o t : l \in {<<>>, Segment(219, <<0, 1>>)},
                               p \in ShortLengthPieces,
                               t \in {ScanTail, <<>>}}
    \cup {<<255, 217, 255, 218, 0, 2>>}

\* offset += 2 on a stand-alone marker, offset += 2 + len on any other:
\* the end of an iteration of findExistingXmp and of the insert functions.
NextOffsetLenOnly(b, offset) ==
  IF At(b, offset + 1) = 216 \/ At(b, offset + 1) = 217 THEN offset + 2
  ELSE offset + ReadU16(b, offset + 2)

NextOffset(b, offset) ==
  IF At(b, offset + 1) = 216 \/ At(b, offset + 1) = 217 THEN offset + 2
  ELSE offset + 2 + ReadU16(b, offset + 2)

\* segEnd of removePhotoshopApp13Segments: the length is read whatever the
\* marker is.
RemoveSegEnd(b, offset) == offset + 2 + ReadU16(b, offset + 2)

\* The loop condition fails, or the byte at offset is no marker prefix.
WalkBreaks == walkOffset + 4 > Len(walkBuf) \/ At(walkBuf, walkOffset) # 255

WalkVisit == walkVisited' = Append(walkVisited, walkOffset)

\* The SOI check and what precedes the loop.
WalkEnter ==
  /\ walkPc = "start"
  /\ IF ~StartsWithSOI(walkBuf)
       THEN walkPc' = "done" /\ UNCHANGED <<walkOffset, walkInsertPos, walkParts>>
     ELSE IF walkFn = "xmp" /\ findExistingXmp(walkBuf).found
       THEN walkPc' = "done" /\ UNCHANGED <<walkOffset, walkInsertPos, walkParts>>
     ELSE /\ walkPc' = "loop"
          /\ walkOffset' = 2
          /\ walkInsertPos' = IF walkFn \in {"xmp", "iptc"} THEN 2 ELSE walkInsertPos
          /\ walkParts' = IF walkFn = "remove" THEN Slice(walkBuf, 0, 2) ELSE walkParts
  /\ UNCHANGED <<walkFn, walkBuf, walkVisited, walkFound>>
  /\ UNCHANGED <<pipeVars, frameVars, appVars, rowVars>>

\* One iteration of the loop of findExistingXmp.
FindStep ==
  /\ walkPc = "loop" /\ walkFn = "find"
  /\ IF WalkBreaks
       THEN walkPc' = "done" /\ UNCHANGED <<walkOffset, walkVisited, walkFound>>
     ELSE LET type == At(walkBuf, walkOffset + 1) IN
       /\ WalkVisit
       /\ IF type = 218
            THEN walkPc' = "done" /\ UNCHANGED <<walkOffset, walkFound>>
          ELSE IF type = 225 /\ XmpPreambleAt(walkBuf, walkOffset + 4)
            THEN /\ walkPc' = "done"
                 /\ walkFound' = Some([start |-> walkOffset,
                                       totalLen |-> 2 + ReadU16(walkBuf, walkOffset + 2)])
                 /\ UNCHANGED walkOffset
          ELSE /\ walkOffset' = NextOffset(walkBuf, walkOffset)
               /\ UNCHANGED <<walkPc, walkFound>>
  /\ UNCHANGED <<walkFn, walkBuf, walkInsertPos, walkParts>>
  /\ UNCHANGED <<pipeVars, frameVars, appVars, rowVars>>

\* One iteration of the loop of the insert function `fn`.
InsertStep(fn) ==
  /\ walkPc = "loop" /\ walkFn = fn
  /\ IF WalkBreaks
       THEN walkPc' = "done" /\ UNCHANGED <<walkOffset, walkVisited, walkInsertPos>>
     ELSE LET type == At(walkBuf, walkOffset + 1) IN
       /\ WalkVisit
       /\ IF type = 218
            THEN walkPc' = "done" /\ UNCHANGED <<walkOffset, walkInsertPos>>
          ELSE /\ walkOffset' = NextOffset(walkBuf, walkOffset)
               /\ walkInsertPos' = IF type >= 224 /\ type <= 239
                                     THEN NextOffset(walkBuf, walkOffset)
                                     ELSE walkInsertPos
               /\ UNCHANGED walkPc
  /\ UNCHANGED <<walkFn, walkBuf, walkParts, walkFound>>
  /\ UNCHANGED <<pipeVars, frameVars, appVars, rowVars>>

InsertXmpStep == InsertStep("xmp")

InsertIptcStep == InsertStep("iptc")

\* One iteration of the loop of removePhotoshopApp13Segments; the push
\* after the loop is made when the loop ends.
RemoveStep ==
  /\ walkPc = "loop" /\ walkFn = "remove"
  /\ IF WalkBreaks
       THEN /\ walkPc' = "done"
            /\ walkParts' = walkParts \o
                 (IF walkOffset < Len(walkBuf) THEN SliceFrom(walkBuf, walkOffset)
                  ELSE <<>>)
            /\ UNCHANGED <<walkOffset, walkVisited>>
     ELSE LET type   == At(walkBuf, walkOffset + 1)
              segEnd == RemoveSegEnd(walkBuf, walkOffset)
          IN
       /\ WalkVisit
       /\ IF type = 218
            THEN /\ walkPc' = "done"
                 /\ walkParts' = walkParts \o SliceFrom(walkBuf, walkOffset)
                 /\ walkOffset' = Len(walkBuf)
          ELSE /\ walkParts' = walkParts \o
                    (IF type = 237 /\ IsPhotoshopAt(walkBuf, walkOffset + 4)
                       THEN <<>> ELSE Slice(walkBuf, walkOffset, segEnd))
               /\ walkOffset' = segEnd
               /\ UNCHANGED walkPc
  /\ UNCHANGED <<walkFn, walkBuf, walkInsertPos, walkFound>>
  /\ UNCHANGED <<pipeVars, frameVars, appVars, rowVars>>

WalkInit ==
  /\ walkFn \in WalkFns
  /\ walkBuf \in WalkInputs
  /\ walkOffset = 0
  /\ walkPc = "start"
  /\ walkVisited = <<>>
  /\ walkInsertPos = 0
  /\ walkParts = <<>>
  /\ walkFound = Null
  /\ PipeIdle /\ FrameIdle /\ AppIdle /\ RowIdle

WalkNext ==
  \/ WalkEnter
  \/ FindStep
  \/ InsertXmpStep
  \/ InsertIptcStep
  \/ RemoveStep

SpecWalk == WalkInit /\ [][WalkNext]_vars

\* The loops are synchronous code: an iteration that can run does run.
SpecWalkLive == SpecWalk /\ WF_vars(WalkNext)

(***************************************************************************)
(* Reading a buffer as the Marker Scanner does                             *)
(***************************************************************************)

\* The offset of the SOS marker the segment walk reaches, or -1 when the
\* walk stops before one (a byte that is no marker prefix, or the end).
RECURSIVE SosFrom(_, _)
SosFrom(b, offset) ==
  IF offset + 4 > Len(b) THEN -1
  ELSE IF At(b, offset) # 255 THEN -1
  ELSE LET type == At(b, offset + 1) IN
    IF type = 218 THEN offset
    ELSE IF type = 216 \/ type = 217 THEN SosFrom(b, offset + 2)
    ELSE SosFrom(b, offset + 2 + ReadU16(b, offset + 2))

SosOffset(b) == IF StartsWithSOI(b) THEN SosFrom(b, 2) ELSE -1

\* A buffer that starts with SOI and whose segment walk reaches SOS.
IsJpeg(b) == SosOffset(b) >= 0

\* The bytes from the SOS marker to the end.
ScanBytes(b) == SliceFrom(b, SosOffset(b))

\* The segments the walk meets before SOS, each with its marker and length
\* bytes (a stand-alone SOI or EOI marker is a segment of two bytes).
RECURSIVE SegmentsFrom(_, _)
SegmentsFrom(b, offset) ==
  IF offset + 4 > Len(b) THEN <<>>
  ELSE IF At(b, offset) # 255 THEN <<>>
  ELSE LET type == At(b, offset + 1) IN
    IF type = 218 THEN <<>>
    ELSE IF type = 216 \/ type = 217
      THEN <<Slice(b, offset, offset + 2)>> \o SegmentsFrom(b, offset + 2)
    ELSE LET segEnd == offset + 2 + ReadU16(b, offset + 2)
         IN  <<Slice(b, offset, segEnd)>> \o SegmentsFrom(b, segEnd)

Segments(b) == SegmentsFrom(b, 2)

\* An APP1 whose payload starts with the XMP signature.
IsXmpSegment(seg) ==
  /\ At(seg, 1) = 225
  /\ Slice(seg, 4, 4 + Len(XmpSignature)) = XmpSignature

\* An APP13 whose payload starts with "Photoshop 3.0\0".
IsPhotoshopSegment(seg) ==
  /\ At(seg, 1) = 237
  /\ Slice(seg, 4, 4 + Len(PhotoshopHeader)) = PhotoshopHeader

IsUntargeted(seg) == ~IsXmpSegment(seg) /\ ~IsPhotoshopSegment(seg)
IsStandalone(seg) == Len(seg) = 2

IsKind(seg, kind) ==
  CASE kind = "xmp"        -> IsXmpSegment(seg)
    [] kind = "photoshop"  -> IsPhotoshopSegment(seg)
    [] kind = "untargeted" -> IsUntargeted(seg)
    [] kind = "standalone" -> IsStandalone(seg)

RECURSIVE SelectSegs(_, _)
SelectSegs(segs, kind) ==
  IF segs = <<>> THEN <<>>
  ELSE (IF IsKind(Head(segs), kind) THEN <<Head(segs)>> ELSE <<>>)
         \o SelectSegs(Tail(segs), kind)

XmpSegments(b) == SelectSegs(Segments(b), "xmp")
PhotoshopSegments(b) == SelectSegs(Segments(b), "photoshop")
UntargetedSegments(b) == SelectSegs(Segments(b), "untargeted")

\* A JPEG with no stand-alone marker between SOI and SOS.
WellFormed(b) == IsJpeg(b) /\ SelectSegs(Segments(b), "standalone") = <<>>

(***************************************************************************)
(* Claims about the compositor                                             *)
(***************************************************************************)

Splices == {"xmp", "remove", "iptc"}

\* The offset of the SOS marker the walk of removePhotoshopApp13Segments
\* reaches (it reads a length behind every marker), or -1.
RECURSIVE RemoveSosFrom(_, _)
RemoveSosFrom(b, offset) ==
  IF offset + 4 > Len(b) THEN -1
  ELSE IF At(b, offset) # 255 THEN -1
  ELSE IF At(b, offset + 1) = 218 THEN offset
  ELSE RemoveSosFrom(b, offset + 2 + ReadU16(b, offset + 2))

\* The SOS offset the walk of stage `op` reaches on b, or -1.
WalkSos(op, b) ==
  IF ~StartsWithSOI(b) THEN -1
  ELSE IF op = "remove" THEN RemoveSosFrom(b, 2)
  ELSE SosFrom(b, 2)

\* C1: for every buffer that starts with SOI and on which the segment walk
\* of a splice function reaches SOS, the function returns a buffer whose
\* bytes from its SOS marker to its end are the input's bytes from its SOS
\* marker to its end; so does the composition insertXmpIntoJpeg,
\* removePhotoshopApp13Segments, insertIptcIntoJpeg of the pipeline.
C1_ScanBytesPreserved ==
  /\ (lastOp \in Splices /\ WalkSos(lastOp, before) >= 0) =>
       /\ pc # "error"
       /\ WalkSos(lastOp, bytes) >= 0
       /\ SliceFrom(bytes, WalkSos(lastOp, bytes))
            = SliceFrom(before, WalkSos(lastOp, before))
  /\ (lastOp = "iptc" /\ entry = "xmp" /\ runs = 0 /\ WellFormed(jpegIn)) =>
       /\ pc = "done"
       /\ IsJpeg(bytes)
       /\ ScanBytes(bytes) = ScanBytes(jpegIn)

\* C1 witness: the three splices have run over a JPEG that held an XMP and
\* a Photoshop segment, and the scan is still behind them.
C1_Witness ==
  /\ lastOp = "iptc" /\ entry = "xmp" /\ runs = 0 /\ pc = "done"
  /\ WellFormed(jpegIn)
  /\ XmpSegments(jpegIn) # <<>>
  /\ PhotoshopSegments(jpegIn) # <<>>
  /\ ScanBytes(bytes) = ScanTail

\* C2: whatever number of XMP APP1 segments a JPEG holds before SOS, the
\* buffer insertXmpIntoJpeg returns holds exactly one, the newly built one.
C2_ExactlyOneXmp ==
  (lastOp = "xmp" /\ IsJpeg(before)) =>
    /\ pc # "error"
    /\ XmpSegments(bytes) = <<xmpSegOf(row)>>

C4_OneOfEachAfterEveryRun ==
  (pc = "done" /\ entry = "exif") =>
    /\ XmpSegments(bytes) = <<xmpSegOf(row)>>
    /\ PhotoshopSegments(bytes) = <<iptcSegOf(row)>>

\* C5: the segments before SOS other than XMP APP1 and Photoshop APP13 are
\* the same, byte for byte and in the same order, before and after
\* insertXmpIntoJpeg, removePhotoshopApp13Segments, insertIptcIntoJpeg.
C5_UntargetedSegmentsKept ==
  (lastOp = "iptc" /\ entry = "xmp" /\ runs = 0 /\ IsJpeg(jpegIn)) =>
    /\ pc = "done"
    /\ IsJpeg(bytes)
    /\ UntargetedSegments(bytes) = UntargetedSegments(jpegIn)

\* C5 witness: the splices ran over a JPEG holding an APP13 of another
\* brand beside a Photoshop APP13, and the other APP13 is still there.
C5_Witness ==
  /\ lastOp = "iptc" /\ entry = "xmp" /\ runs = 0 /\ pc = "done"
  /\ IsJpeg(jpegIn)
  /\ PhotoshopSegments(jpegIn) # <<>>
  /\ \E i \in 1..Len(UntargetedSegments(bytes)) :
        At(UntargetedSegments(bytes)[i], 1) = 237

\* C9: on every buffer that starts with SOI, a malformed one included, the
\* splice functions return a buffer and raise no error.
C9_NoErrorOnMalformed ==
  (lastOp \in Splices /\ StartsWithSOI(before)) => pc # "error"

(***************************************************************************)
(* Claims about the builders                                               *)
(***************************************************************************)

\* The 2-byte big-endian length field of a segment.
LengthField(f) == f.head[3] * 256 + f.head[4]

\* C8: for texts of any length, the length field of the segment built by
\* buildXmpSegment and of the one built by buildIptcSegment is the number of
\* bytes behind it plus 2: the length of the segment minus 2.
C8_LengthFieldIsPayloadPlus2 ==
  /\ framePc \in {"xmp", "iptc"} => LengthField(xmpOut) = xmpOut.length - 2
  /\ framePc = "iptc" => LengthField(iptcOut) = iptcOut.length - 2

(***************************************************************************)
(* The orchestrator's claims                                               *)
(***************************************************************************)

\* The EXIF step of the current image is not under way: it has not begun,
\* or it is over (the image went on or its result is pushed).
ExifStepOver == runPc \notin {"dump", "insert", "dump2", "insert2"}

\* C6: when the EXIF encode-and-splice step (dump, then insert) fails on its
\* first attempt, ImageDescription is cleared and the step is tried once
\* more; when the retry succeeds the image goes on to the XMP and IPTC
\* stages, when it fails the image ends in error; the step is never tried
\* more than twice, and no image ends on a first failure without the retry.
C6_RetryOnceAfterFirstFailure ==
  /\ attempts.tries <= 2
  /\ ExifStepOver /\ attempts.failed >= 1 =>
       attempts.tries = 2 /\ attempts.cleared
  /\ ExifStepOver /\ attempts.failed = 2 =>
       runPc \in {"loop", "idle"} /\ out[Len(out)].status = "error"
  /\ runPc \in {"loop", "idle"} /\ attempts.tries = 2 /\ attempts.failed = 1 =>
       attempts.spliced

\* A call has run to its end and no other has begun.
Completed == runPc = "idle" /\ applies > 0

\* C7: a completed call yields one result per image, in the order of the
\* input, each updated or error; a failed image has status error, a
\* non-empty message and no updated blob, and the images after it are still
\* processed.
C7_OneResultPerImage ==
  Completed =>
    /\ Len(out) = Len(runImages)
    /\ \A i \in 1..Len(out) :
         /\ out[i].file = runImages[i].file
         /\ out[i].status \in {"updated", "error"}
         /\ out[i].status = "error" =>
              /\ out[i].error # Null
              /\ out[i].error[1] # ""
              /\ out[i].updatedBlob = Null

\* The name and the row's source are equal once both are lowercased and
\* trimmed.
SameName(file, r) == toLowerCase(Trim(file.name)) = toLowerCase(Trim(r.source))

\* The result says the image had no row.
NoRowResult(res) ==
  res.status = "error" /\ res.error = Some("No matching row in XLSX.")

\* C10: an image (that is taken for a JPEG) is matched to a row exactly when
\* its file name and the row's Source file name are equal after both are
\* lowercased and trimmed; an image without such a row gets the error
\* "No matching row in XLSX.".
C10_MatchedIffNamesEqualTrimmedLowercased ==
  \A i \in 1..Len(out) :
    LET file == runImages[i].file
        isJpeg == \/ includes(file.type, JpegWord)
                  \/ endsWith(toLowerCase(file.name), DotJpg)
    IN  isJpeg =>
          (NoRowResult(out[i]) <=>
             ~\E k \in 1..Len(runRows) : SameName(file, runRows[k]))

(***************************************************************************)
(* The claims about one row's texts                                        *)
(***************************************************************************)

TagsAreSet == rowPc \in {"tags", "segments", "named"}

SegmentsAreBuilt == rowPc \in {"segments", "named"}

\* C11: the Description is the text written to the XPComment tag, as UTF-16
\* text; Title, Caption and Keywords are stored in XPTitle, XPComment and
\* XPKeywords.
C11_DescriptionInXPComment ==
  TagsAreSet =>
    /\ rowIn.description # <<>> =>
         rowTags.XPComment = Some(encodeXP(rowIn.description))
    /\ rowIn.title # <<>> => rowTags.XPTitle = Some(encodeXP(rowIn.title))
    /\ rowIn.caption # <<>> =>
         rowTags.XPComment = Some(encodeXP(rowIn.caption))
    /\ rowIn.keywords # <<>> =>
         rowTags.XPKeywords = Some(encodeXP(rowIn.keywords))

IsAscii(s) == \A i \in 1..Len(s) : s[i] <= 127

\* The name asked for: the row's output name, or the file's name when the
\* output name is empty.
AskedName == IF rowIn.output # <<>> THEN rowIn.output ELSE rowIn.name

\* s ends with .jpg or .jpeg, in any case of the letters.
EndsAsJpeg(s) ==
  \E e \in {DotJpg, DotJpeg} :
    /\ Len(s) >= Len(e)
    /\ \A i \in 1..Len(e) :
         LET c == s[Len(s) - Len(e) + i]
         IN  c = e[i] \/ (e[i] >= 97 /\ c = e[i] - 32)

\* C12: the output name is the transliteration of the asked name, with .jpg
\* appended exactly when the transliteration does not end with .jpg or .jpeg
\* in any case; it always ends so, and it holds ASCII characters only.
C12_OutputNameAsciiJpeg ==
  rowPc = "named" =>
    LET base == transliterateSerbian(AskedName)
    IN  /\ rowName = (IF EndsAsJpeg(base) THEN base ELSE base \o DotJpg)
        /\ EndsAsJpeg(rowName)
        /\ IsAscii(rowName)

\* C13: ImageDescription is sanitizeAsciiText of the description, or of the
\* caption when the description is empty, and none of its code points is
\* above 0x7F.
C13_ImageDescriptionSanitized ==
  TagsAreSet =>
    /\ rowTags.ImageDescription =
         sanitizeAsciiText(IF rowIn.description = <<>> THEN rowIn.caption
                           ELSE rowIn.description)
    /\ IsAscii(rowTags.ImageDescription)

\* An empty description gave way to the caption "en dash, e acute", which
\* became "-e".
C13_Witness ==
  /\ TagsAreSet
  /\ rowIn.description = <<>>
  /\ rowIn.caption = <<8211, 233>>
  /\ rowTags.ImageDescription = <<45, 101>>

(***************************************************************************)
(* Placement of a newly inserted segment                                   *)
(***************************************************************************)

IsAppMarker(seg) == At(seg, 1) >= 224 /\ At(seg, 1) <= 239

\* The offset just past the last APPn segment of a segment list that
\* starts at `offset`; `p` when the list holds no APPn segment.
RECURSIVE LastAppEndFrom(_, _, _)
LastAppEndFrom(segs, offset, p) ==
  IF segs = <<>> THEN p
  ELSE LET end == offset + Len(Head(segs)) IN
    LastAppEndFrom(Tail(segs), end, IF IsAppMarker(Head(segs)) THEN end ELSE p)

\* Just past the last APPn segment before the scan, else just past SOI.
LastAppEnd(b) == LastAppEndFrom(Segments(b), 2, 2)

InsertedSegment == IF lastOp = "xmp" THEN xmpSegOf(row) ELSE iptcSegOf(row)

\* A new segment was inserted: an IPTC insertion, or an XMP insertion into
\* a buffer without an XMP segment, on a buffer whose walk reaches the scan.
NewSegmentInserted ==
  /\ lastOp \in {"xmp", "iptc"}
  /\ IsJpeg(before)
  /\ lastOp = "xmp" => XmpSegments(before) = <<>>

\* C14: a newly inserted XMP or IPTC segment is placed immediately after
\* the last APPn segment found before the start-of-scan marker (right after
\* SOI when there is none), never after the start of scan, and everything
\* else keeps its bytes and order.
C14_InsertedAfterLastApp ==
  NewSegmentInserted =>
    LET p == LastAppEnd(before) IN
    /\ pc # "error"
    /\ p <= SosOffset(before)
    /\ bytes = Slice(before, 0, p) \o InsertedSegment \o SliceFrom(before, p)

\* An insertion where the last APPn segment is followed by a non-APPn
\* segment before the scan: the new segment goes between the two.
C14_Witness ==
  /\ NewSegmentInserted
  /\ LastAppEnd(before) > 2
  /\ LastAppEnd(before) < SosOffset(before)
  /\ lastOp = "iptc"

(***************************************************************************)
(* Claims about the segment walks                                          *)
(***************************************************************************)

\* The offsets the Marker Scanner contract visits from `offset`: two bytes
\* for a stand-alone SOI or EOI, a stop at SOS, 2 + length for the rest.
RECURSIVE ContractVisits(_, _)
ContractVisits(b, offset) ==
  IF offset + 4 > Len(b) THEN <<>>
  ELSE IF At(b, offset) # 255 THEN <<>>
  ELSE LET type == At(b, offset + 1) IN
    IF type = 218 THEN <<offset>>
    ELSE IF type = 216 \/ type = 217
      THEN <<offset>> \o ContractVisits(b, offset + 2)
    ELSE <<offset>> \o ContractVisits(b, offset + 2 + ReadU16(b, offset + 2))

IsPrefix(s, t) == Len(s) <= Len(t) /\ SubSeq(t, 1, Len(s)) = s

\* The walk ran to the end of its loop (findExistingXmp met no XMP segment).
WalkedToEnd == walkPc = "done" /\ walkOffset >= 2 /\ walkFound = Null

\* C15: every walk visits the segment start offsets of the Marker Scanner
\* contract (two bytes for SOI and EOI, a stop at SOS, 2 + length for any
\* other marker), so the four walks visit the same offsets on every buffer.
C15_WalksFollowContract ==
  /\ IsPrefix(walkVisited, ContractVisits(walkBuf, 2))
  /\ WalkedToEnd => walkVisited = ContractVisits(walkBuf, 2)

\* The three walks other than the removal follow the contract.
WalksButRemoveFollowContract == walkFn # "remove" => C15_WalksFollowContract

\* The removal follows it on buffers without a stand-alone marker before
\* the scan.
RemoveFollowsContractWhenWellFormed ==
  (walkFn = "remove" /\ SelectSegs(Segments(walkBuf), "standalone") = <<>>)
    => C15_WalksFollowContract

\* The step machine returns what the functions of the compositor return.
WalkAgreesWithFunctions ==
  walkPc = "done" /\ StartsWithSOI(walkBuf) =>
    /\ walkFn = "find" =>
         LET f == findExistingXmp(walkBuf) IN
         IF f.found THEN walkFound = Some([start |-> f.start, totalLen |-> f.totalLen])
         ELSE walkFound = Null
    /\ (walkFn = "iptc" \/ (walkFn = "xmp" /\ ~findExistingXmp(walkBuf).found))
         => walkInsertPos = InsertPosFrom(walkBuf, 2, 2)
    /\ walkFn = "remove" => walkParts = removePhotoshopApp13Segments(walkBuf)

\* C19: every scan loop terminates, on buffers with a declared segment
\* length of 0 or 1 too: from one iteration to the next the offset grows by
\* at least 2, and every walk ends.
C19_WalksTerminate ==
  /\ [][walkPc = "loop" /\ walkPc' = "loop" => walkOffset' >= walkOffset + 2]_vars
  /\ <>(walkPc = "done")

\* A finished walk that went over a segment of declared length 0 or 1.
C19_Witness ==
  /\ walkPc = "done"
  /\ \E i \in 1..Len(walkVisited) :
       /\ At(walkBuf, walkVisited[i] + 1) \notin {216, 217, 218}
       /\ ReadU16(walkBuf, walkVisited[i] + 2) \in {0, 1}
       /\ walkOffset > walkVisited[i]

(***************************************************************************)
(* The splice stages over their own output                                 *)
(***************************************************************************)

\* Lines 568-577: the three splice stages over b with the segments of r.
SpliceStagesOver(b, r) ==
  insertIptcIntoJpeg(
    removePhotoshopApp13Segments(insertXmpIntoJpeg(b, xmpSegOf(r))),
    iptcSegOf(r))

\* The three splice stages of a run have been applied, the last just now.
SplicesApplied ==
  /\ pc = "done" /\ lastOp = "iptc"
  /\ entry \in {"exif", "xmp"} \/ runs >= 1

\* C16: the buffer the three splice stages produced from a well-formed
\* JPEG is returned byte for byte when the same stages are applied to it
\* again with the same XMP and IPTC segments.
C16_SplicesFixedPoint ==
  (SplicesApplied /\ WellFormed(jpegIn)) =>
    SpliceStagesOver(bytes, row) = bytes

\* The stages ran over a JPEG that held an XMP and a Photoshop segment and
\* changed it; applying them again changes nothing.
C16_Witness ==
  /\ SplicesApplied /\ entry = "xmp" /\ runs = 0
  /\ WellFormed(jpegIn)
  /\ XmpSegments(jpegIn) # <<>>
  /\ PhotoshopSegments(jpegIn) # <<>>
  /\ bytes # jpegIn
  /\ SpliceStagesOver(bytes, row) = bytes

\* The same on every buffer whose walk reaches the scan.
SplicesFixedPointOnJpeg ==
  (SplicesApplied /\ IsJpeg(jpegIn)) => SpliceStagesOver(bytes, row) = bytes

\* The same on every buffer.
SplicesFixedPointAlways ==
  SplicesApplied => SpliceStagesOver(bytes, row) = bytes

(***************************************************************************)
(* The IIM records of the built IPTC segment                               *)
(***************************************************************************)

\* The payload of the 0x0404 resource of a segment built by
\* buildIptcSegment: behind the marker and length, the header, "8BIM", the
\* id, the empty padded name and the 4 size bytes.
IimOffset == 4 + Len(PhotoshopHeader) + Len(BimSignature) + 2 + 2 + 4

IimSize(seg) ==
  At(seg, IimOffset - 4) * 16777216 + At(seg, IimOffset - 3) * 65536
    + At(seg, IimOffset - 2) * 256 + At(seg, IimOffset - 1)

IimPayload(seg) == Slice(seg, IimOffset, IimOffset + IimSize(seg))

\* The records a reader finds in an IIM payload from index i (from 1): the
\* tag marker 0x1C, record, dataset, a 2-byte length and that many bytes
\* of data. What is no record ends the list with a record numbered -1.
RECURSIVE ReadIim(_, _)
ReadIim(p, i) ==
  IF i > Len(p) THEN <<>>
  ELSE IF i + 4 > Len(p) \/ p[i] # 28
    THEN <<[record |-> -1, dataset |-> -1, data |-> <<>>]>>
  ELSE LET size == p[i + 3] * 256 + p[i + 4] IN
    IF i + 4 + size > Len(p)
      THEN <<[record |-> -1, dataset |-> -1, data |-> <<>>]>>
      ELSE << [record |-> p[i + 1], dataset |-> p[i + 2],
              data |-> SubSeq(p, i + 5, i + 4 + size)] >>
             \o ReadIim(p, i + 5 + size)

RECURSIVE KeywordRecords(_)
KeywordRecords(kws) ==
  IF kws = <<>> THEN <<>>
  ELSE (IF Head(kws) = <<>> THEN <<>>
        ELSE <<[record |-> 2, dataset |-> 25, data |-> utf8(Head(kws))]>>)
         \o KeywordRecords(Tail(kws))

\* The records the IIM payload is to hold for a title, a caption and a
\* keyword list.
IimRecordsFor(title, caption, kws) ==
  <<[record |-> 1, dataset |-> 90, data |-> <<27, 37, 71>>],
    [record |-> 2, dataset |-> 0, data |-> <<0, 4>>]>>
    \o (IF title = <<>> THEN <<>>
        ELSE <<[record |-> 2, dataset |-> 5, data |-> utf8(title)]>>)
    \o (IF caption = <<>> THEN <<>>
        ELSE <<[record |-> 2, dataset |-> 120, data |-> utf8(caption)]>>)
    \o KeywordRecords(kws)

\* The IPTC segment of the texts of the state, of which iptcOut is the
\* framing.
FrameIptcSegment ==
  buildIptcSegment(Text(frameIn.title), Text(frameIn.caption),
                   Texts(frameIn.keywords))

IimRecordsAsSpecified ==
  /\ Framing(FrameIptcSegment) = iptcOut
  /\ ReadIim(IimPayload(FrameIptcSegment), 1)
       = IimRecordsFor(Text(frameIn.title), Text(frameIn.caption),
                       Texts(frameIn.keywords))

\* C17: for every title, caption and keyword list the IIM payload holds, in
\* this order, 1:90 with ESC % G, 2:0 with 0x0004, 2:5 with the title when
\* it is not empty, 2:120 with the caption when it is not empty, and one
\* 2:25 per non-empty keyword in the order given, each with the UTF-8 bytes
\* of its text and a 2-byte length that is the number of those bytes.
C17_IimRecordsInOrder == framePc = "iptc" => IimRecordsAsSpecified

\* No text of the state has more UTF-8 bytes than 2 length bytes count.
TextsFitRecords ==
  /\ Len(utf8(Text(frameIn.title))) <= 65535
  /\ Len(utf8(Text(frameIn.caption))) <= 65535
  /\ \A i \in 1..Len(frameIn.keywords) :
       Len(utf8(Text(frameIn.keywords[i]))) <= 65535

\* The records are as specified whenever every text fits its record.
IimRecordsInOrderWhenTextsFit ==
  (framePc = "iptc" /\ TextsFitRecords) => IimRecordsAsSpecified

\* They are not whenever one does not.
IimRecordsBrokenWhenTextTooLong ==
  (framePc = "iptc" /\ ~TextsFitRecords) => ~IimRecordsAsSpecified

(***************************************************************************)
(* The keywords of a row in the three metadata blocks                      *)
(***************************************************************************)

IsSeparator(c) == c = 44 \/ c = 59

\* The index of the first comma or semicolon of s at or behind i, or
\* Len(s) + 1.
NextSeparator(s, i) ==
  CHOOSE j \in i..(Len(s) + 1) :
    /\ j = Len(s) + 1 \/ IsSeparator(s[j])
    /\ \A k \in i..(j - 1) : ~IsSeparator(s[k])

\* p without the white space at its two ends.
Stripped(p) ==
  LET inked == {i \in 1..Len(p) : p[i] \notin WhiteSpace} IN
  IF inked = {} THEN <<>>
  ELSE SubSeq(p, CHOOSE i \in inked : \A j \in inked : i <= j,
                 CHOOSE i \in inked : \A j \in inked : i >= j)

\* The stripped, non-empty pieces of s between separators, from index i.
RECURSIVE KeywordsFrom(_, _)
KeywordsFrom(s, i) ==
  IF i > Len(s) + 1 THEN <<>>
  ELSE LET j == NextSeparator(s, i)
           p == Stripped(SubSeq(s, i, j - 1))
       IN  (IF p = <<>> THEN <<>> ELSE <<p>>) \o KeywordsFrom(s, j + 1)

ExpectedKeywords == KeywordsFrom(rowIn.keywords, 1)

\* The data of the 2:25 records of a record list, in order.
RECURSIVE KeywordData(_)
KeywordData(records) ==
  IF records = <<>> THEN <<>>
  ELSE (IF Head(records).record = 2 /\ Head(records).dataset = 25
          THEN <<Head(records).data>> ELSE <<>>)
         \o KeywordData(Tail(records))

RECURSIVE Utf8Each(_)
Utf8Each(kws) ==
  IF kws = <<>> THEN <<>> ELSE <<utf8(Head(kws))>> \o Utf8Each(Tail(kws))

\* C18: kwList is the Keywords string split at every comma and semicolon,
\* each piece trimmed, the empty ones dropped, in order; the XMP and the
\* IPTC segment are built from that list, so they hold the same keywords
\* in the same order; XPKeywords is the string as typed, not split.
C18_KeywordsSplitForXmpAndIptc ==
  /\ SegmentsAreBuilt =>
       /\ rowKw = ExpectedKeywords
       /\ rowXmp = buildXmpSegment(
                     buildXmpXml(rowIn.title, rowIn.description,
                                 ExpectedKeywords))
       /\ rowIptc = buildIptcSegment(rowIn.title, rowIn.caption,
                                     ExpectedKeywords)
       /\ KeywordData(ReadIim(IimPayload(rowIptc), 1))
            = Utf8Each(ExpectedKeywords)
  /\ (TagsAreSet /\ rowIn.keywords # <<>>) =>
       rowTags.XPKeywords = Some(encodeXP(rowIn.keywords))

\* A Keywords string with a comma and a semicolon gave two keywords to the
\* builders and went unsplit into XPKeywords.
C18_Witness ==
  /\ SegmentsAreBuilt
  /\ \E i, j \in 1..Len(rowIn.keywords) :
       rowIn.keywords[i] = 44 /\ rowIn.keywords[j] = 59
  /\ \E i \in 1..Len(rowIn.keywords) : rowIn.keywords[i] = 32
  /\ Len(rowKw) = 2
  /\ rowTags.XPKeywords = Some(encodeXP(rowIn.keywords))

(***************************************************************************)
(* The processing flag while a call of applyMetadata is in flight          *)
(***************************************************************************)

\* A call of applyMetadata has set processing and has not yet reached its
\* final setProcessing(false).
InFlight == runPc # "idle"

\* disabled={!images.length || !xlsxRows.length || processing}
ApplyDisabled == images = <<>> \/ xlsxRows = <<>> \/ processing

\* C20: while a call of applyMetadata is in flight the processing flag is
\* true, whatever handlers run in its awaits, so that the Apply Metadata
\* button is disabled and no second call can start.
C20_ProcessingWhileInFlight == InFlight => processing

\* The button alone.
ApplyDisabledWhileInFlight == InFlight => ApplyDisabled

\* The flag under the file selections alone: it is true in flight as long
\* as no clear handler has run since the call began.
ProcessingFalseOnlyAfterClear ==
  [][(InFlight /\ runPc' # "idle" /\ processing /\ ~processing')
       => (clearUploads \/ clearImages \/ clearXlsx)]_vars

(***************************************************************************)
(* The images list after a call that a handler of the user overtook        *)
(***************************************************************************)

\* The files of a list of images, in order.
FilesOf(imgs) == [i \in 1..Len(imgs) |-> imgs[i].file]

\* The images list is no longer the one the call in flight captured: a
\* clear or a new selection ran in one of its awaits.
ImagesChangedInFlight == InFlight /\ images # runImages

\* C21: when clearImages, clearUploads or a new image selection ran while
\* a call of applyMetadata was in flight, the call's final setImages(out)
\* leaves the images list with the files of that later action: it brings
\* back no image that was cleared or replaced.
C21_LaterActionKept ==
  [][(SetImagesOut /\ ImagesChangedInFlight)
       => FilesOf(images') = FilesOf(images)]_vars

\* Without such an action the final setImages(out) keeps the files.
FilesKeptWhenUndisturbed ==
  [][(SetImagesOut /\ images = runImages)
       => FilesOf(images') = FilesOf(images)]_vars

\* The final setImages(out) always sets the files the call captured.
OutHoldsCapturedFiles ==
  [][SetImagesOut => FilesOf(images') = FilesOf(runImages)]_vars

=============================================================================
